---- MODULE Spec2Model ----
(***************************************************************************)
(* Approval queue and execution pipeline of the Amazon Ads manager          *)
(* (backend/app/routers/approvals.py and its collaborators).                *)
(*                                                                          *)
(* The store is the pending_changes table.  Every HTTP request runs in its  *)
(* own SQLAlchemy session (database.get_db): the handler SELECTs rows,      *)
(* changes attributes of the loaded objects in memory and returns; get_db   *)
(* then commits, which flushes one UPDATE per dirty object (only the        *)
(* columns whose value differs from the loaded one, WHERE id = pk, no       *)
(* version column) and the queued INSERTs / DELETEs.  An HTTPException      *)
(* raised by the handler rolls the session back.  Calls to the External     *)
(* Adapter (mcp_client.AmazonAdsMCP) are not transactional: they happen     *)
(* when the handler awaits them; every call is recorded in `executions`     *)
(* with the ids its body carries and what the adapter returned.             *)
(*                                                                          *)
(* The composite executors (services.harvest_service, services.             *)
(* campaign_creation_service) and the bid optimizer (services.              *)
(* optimizer_service) are operators over what the adapter answers.  Money   *)
(* is counted in exact thousandths; the binary floating point of the        *)
(* program is not modelled.                                                 *)
(***************************************************************************)
EXTENDS Integers, Sequences, FiniteSets, TLC

\* ---------------------------------------------------------------- bounds
MaxChanges == 2        \* change records ever created (ids 1..MaxChanges)
MaxClock   == 2        \* utcnow() saturates at this value
MaxDirect  == 1        \* runs of the handlers that call the adapter outside the pipeline
MaxAdGroups == 2       \* ad groups in a campaign bundle
MaxDispatch == 2       \* dispatches of one record when commits are lost

\* ------------------------------------------------------------- constants
Procs    == {1, 2}     \* request slots (concurrent HTTP requests)
Ids      == 1..MaxChanges
NoChange == 0          \* key of the adapter calls that belong to no change record
None     == "None"     \* Python None in a string column
NoTime   == 0          \* Python None in a DateTime column

Batches  == {"b1", "b2"}

NoResult == [kind |-> "none"]

UpdateBidTool == "campaign_management-update_target_bid"
CreateCampaignTool == "campaign_management-create_campaign"
CreateAdGroupTool == "campaign_management-create_ad_group"
CreateTargetTool == "campaign_management-create_target"
CreateAdTool == "campaign_management-create_ad"
QueryTargetTool == "campaign_management-query_target"
QueryAdGroupTool == "campaign_management-query_ad_group"
ReportTool == "reporting-create_campaign_report"
HarvestTool == "campaign_management-create_campaign_harvest_targets"
HarvestExecute == "_harvest_execute"
AICampaignCreate == "_ai_campaign_create"
Absent == "<absent>"   \* the key "tool" is not in mcp_payload

\* Adapter operations that only read.
ReadOnlyTools == {QueryTargetTool, QueryAdGroupTool, ReportTool}

VARIABLES
  pending_changes,   \* the table: id -> row
  activity_log,      \* the activity_logs table: number of committed rows
  executions,        \* change id -> what was run against the External Adapter for it:
                     \*   one record per dispatch, with the calls made and what came back
  clock,             \* what utcnow() returns next
  next_id,           \* next primary key handed out
  req,               \* per request slot: the handler's session and position
  resp               \* the HTTP response sent last, at the slot that sent it

vars == <<pending_changes, activity_log, executions, clock, next_id, req, resp>>

\* ------------------------------------------------------------ utilities
Restrict(f, S) == [x \in S |-> f[x]]

\* app/utils.py utcnow(): the clock reading; the clock then moves on
utcnow == clock

Tick == IF clock < MaxClock THEN clock + 1 ELSE clock

\* models.Credential rows; a change carries the id (and the profile) of the
\* credential it was queued for.
Credentials == {"c1", "c2"}
DefaultCredential == "c1"

\* ------------------------------------------------------- the change row
\* models.PendingChange as inserted: status defaults to pending, the
\* review / apply columns are NULL.
PendingChange(credential_id, mcp_payload, batch_id) ==
  [ credential_id |-> credential_id,
    status        |-> "pending",
    reviewed_at   |-> NoTime,
    review_note   |-> None,
    applied_at    |-> NoTime,
    apply_result  |-> NoResult,
    error_message |-> None,
    mcp_payload   |-> mcp_payload,
    batch_id      |-> batch_id ]

\* The mutation commands the callers put in the queue.
HarvestArguments ==
  [ source_campaign_id |-> "src", target_mode |-> "existing",
    target_campaign_id |-> "dst", negate_in_source |-> TRUE,
    sales_threshold |-> 1, acos_threshold |-> <<>> ]

PlanArguments ==
  [ plan |-> [ campaign |-> TRUE, asin |-> None,
               ad_groups |-> << [name |-> "Default Ad Group", keywords |-> <<>>] >> ] ]

\* A bundle of MaxAdGroups ad groups with a product ad and one keyword each.
BundleArguments ==
  [ plan |-> [ campaign |-> TRUE, asin |-> "B0",
               ad_groups |-> [k \in 1..MaxAdGroups |->
                                [name |-> (<<"g1", "g2", "g3">>)[k],
                                 keywords |-> <<(<<"k1", "k2", "k3">>)[k]>>]] ] ]

McpPayloads ==
  { [tool |-> Absent,           arguments |-> [body |-> "x"]],
    [tool |-> "",               arguments |-> [body |-> "x"]],
    [tool |-> "unknown",        arguments |-> [body |-> "x"]],
    [tool |-> UpdateBidTool,    arguments |-> [body |-> "bid"]],
    [tool |-> HarvestExecute,   arguments |-> HarvestArguments],
    [tool |-> AICampaignCreate, arguments |-> PlanArguments] }

\* ---------------------------------------------------- the ORM session
Idle == [kind |-> "idle"]

NoResponse == [code |-> 0, detail |-> "none"]

\* A fresh session of get_db: nothing loaded, nothing pending.
Session(kind) ==
  [ kind       |-> kind,
    pc         |-> "returned",
    change_ids |-> {},      \* the request payload (apply)
    batch_id   |-> None,
    client     |-> None,    \* apply: the credential the adapter client was built for
    snap       |-> <<>>,    \* rows as loaded by the SELECT
    sess       |-> <<>>,    \* the loaded objects with the handler's assignments
    new        |-> <<>>,    \* db.add(PendingChange(...)) : id -> row
    deleted    |-> {},      \* db.delete(change)
    logs       |-> 0,       \* db.add(ActivityLog(...)) : rows queued
    response   |-> [code |-> 200, detail |-> "ok"],
    order      |-> <<>>,    \* apply: the selected ids in result order
    i          |-> 1,       \* apply: position in the loop
    applied    |-> 0,
    failed     |-> 0,
    results    |-> <<>> ]

\* The UPDATE the unit of work emits for one dirty object: only the
\* attributes whose value differs from the loaded one are written.
FlushRow(row, loaded, obj) ==
  [ status        |-> IF obj.status # loaded.status THEN obj.status ELSE row.status,
    reviewed_at   |-> IF obj.reviewed_at # loaded.reviewed_at THEN obj.reviewed_at ELSE row.reviewed_at,
    review_note   |-> IF obj.review_note # loaded.review_note THEN obj.review_note ELSE row.review_note,
    applied_at    |-> IF obj.applied_at # loaded.applied_at THEN obj.applied_at ELSE row.applied_at,
    apply_result  |-> IF obj.apply_result # loaded.apply_result THEN obj.apply_result ELSE row.apply_result,
    error_message |-> IF obj.error_message # loaded.error_message THEN obj.error_message ELSE row.error_message,
    credential_id |-> IF obj.credential_id # loaded.credential_id THEN obj.credential_id ELSE row.credential_id,
    mcp_payload   |-> IF obj.mcp_payload # loaded.mcp_payload THEN obj.mcp_payload ELSE row.mcp_payload,
    batch_id      |-> IF obj.batch_id # loaded.batch_id THEN obj.batch_id ELSE row.batch_id ]

\* An UPDATE that matches no row makes the flush raise StaleDataError.
Stale(table, s) ==
  \E id \in DOMAIN s.sess :
     /\ id \notin s.deleted
     /\ s.sess[id] # s.snap[id]
     /\ id \notin DOMAIN table

\* The table after a successful commit of session s.
Committed(table, s) ==
  [ id \in ((DOMAIN table) \ s.deleted) \cup DOMAIN s.new |->
      IF id \in DOMAIN s.new THEN s.new[id]
      ELSE IF id \in DOMAIN s.sess THEN FlushRow(table[id], s.snap[id], s.sess[id])
      ELSE table[id] ]

\* The response leaving slot p; it replaces the one sent before it.
Respond(p, response) == [q \in Procs |-> IF q = p THEN response ELSE NoResponse]

\* HTTPException raised by a handler: get_db rolls back and re-raises, so
\* nothing of the session reaches the tables.
Raise(p, code, detail) ==
  /\ resp' = Respond(p, [code |-> code, detail |-> detail])
  /\ req' = [req EXCEPT ![p] = Idle]
  /\ UNCHANGED <<pending_changes, activity_log, executions, clock, next_id>>

\* The handler returned: its session waits for get_db's commit.
Return(p, s) ==
  /\ req' = [req EXCEPT ![p] = s]
  /\ resp' = [q \in Procs |-> NoResponse]
  /\ UNCHANGED <<pending_changes, activity_log>>

\* -------------------------------------------------------------- Init
Init ==
  /\ pending_changes = <<>>
  /\ activity_log = 0
  /\ executions = [id \in {NoChange} \cup Ids |-> <<>>]
  /\ clock = 1
  /\ next_id = 1
  /\ req = [p \in Procs |-> Idle]
  /\ resp = [p \in Procs |-> NoResponse]

\* ------------------------------------------------ database.get_db
\* `yield session` returned normally: commit.  A flush error rolls back.
get_db_commit(p) ==
  /\ req[p].kind # "idle"
  /\ req[p].pc = "returned"
  /\ IF Stale(pending_changes, req[p])
       THEN /\ resp' = Respond(p, [code |-> 500, detail |-> "StaleDataError"])
            /\ UNCHANGED <<pending_changes, activity_log>>
       ELSE /\ pending_changes' = Committed(pending_changes, req[p])
            /\ activity_log' = activity_log + req[p].logs
            /\ resp' = Respond(p, req[p].response)
  /\ req' = [req EXCEPT ![p] = Idle]
  /\ UNCHANGED <<executions, clock, next_id>>

\* ------------------------------------------- approvals.create_pending_change
create_pending_change(p, credential_id, mcp_payload, batch_id) ==
  /\ req[p].kind = "idle"
  /\ next_id <= MaxChanges
  /\ Return(p, [Session("create") EXCEPT
                  !.new = (next_id :> PendingChange(credential_id, mcp_payload, batch_id)),
                  !.logs = 1,
                  !.response = [code |-> 200, detail |-> "pending"]])
  /\ next_id' = next_id + 1
  /\ UNCHANGED <<executions, clock>>

\* ------------------------------------------------ approvals.review_change
\* (a guard that only refuses what the pipeline has already applied)
ReviewGuardNotApplied(change) == change.status # "applied"

ReviewGuard(change) == change.status = "pending"

NewStatus(action) == IF action = "approve" THEN "approved" ELSE "rejected"

Reviewed(change, action, review_note, now) ==
  [change EXCEPT !.status = NewStatus(action),
                 !.reviewed_at = now,
                 !.review_note = review_note]

review_change(p, change_id, action, review_note) ==
  /\ req[p].kind = "idle"
  /\ IF change_id \notin DOMAIN pending_changes
       THEN Raise(p, 404, "Change not found")
     ELSE IF ~ReviewGuard(pending_changes[change_id])
       THEN Raise(p, 400, "Change is already " \o pending_changes[change_id].status)
     ELSE IF action \notin {"approve", "reject"}
       THEN Raise(p, 400, "Action must be 'approve' or 'reject'")
     ELSE /\ Return(p, [Session("review") EXCEPT
                  !.snap = (change_id :> pending_changes[change_id]),
                  !.sess = (change_id :> Reviewed(pending_changes[change_id], action, review_note, utcnow)),
                  !.logs = 1,
                  !.response = [code |-> 200, detail |-> NewStatus(action)]])
          /\ clock' = Tick
          /\ UNCHANGED <<executions, next_id>>

\* ------------------------------------------------ approvals.batch_review
\* (the query without its status filter)
BatchReviewQueryAnyStatus(table, change_ids) ==
  {id \in DOMAIN table : id \in change_ids}

BatchReviewQuery(table, change_ids) ==
  {id \in DOMAIN table : id \in change_ids /\ table[id].status = "pending"}

\* (one activity-log row per reviewed record)
BatchReviewLogPerRecord(changes) == Cardinality(changes)

\* "Single activity log for batch"
BatchReviewLog(changes) == 1

batch_review(p, change_ids, action, review_note) ==
  /\ req[p].kind = "idle"
  /\ IF action \notin {"approve", "reject"}
       THEN Raise(p, 400, "Action must be 'approve' or 'reject'")
     ELSE LET changes == BatchReviewQuery(pending_changes, change_ids) IN
       IF changes = {}
         THEN Raise(p, 404, "No pending changes found")
       ELSE /\ Return(p, [Session("batch_review") EXCEPT
                    !.snap = Restrict(pending_changes, changes),
                    !.sess = [id \in changes |->
                                Reviewed(pending_changes[id], action, review_note, utcnow)],
                    !.logs = BatchReviewLog(changes),
                    !.response = [code |-> 200, detail |-> NewStatus(action),
                                  reviewed |-> Cardinality(changes)]])
            /\ clock' = Tick
            /\ UNCHANGED <<executions, next_id>>

\* ------------------------------------------------ approvals.delete_change
\* (a guard that only protects what the pipeline has applied)
DeleteGuardUnlessApplied(change) == change.status # "applied"

DeleteGuard(change) == change.status \in {"pending", "rejected"}

delete_change(p, change_id) ==
  /\ req[p].kind = "idle"
  /\ IF change_id \notin DOMAIN pending_changes
       THEN Raise(p, 404, "Change not found")
     ELSE IF ~DeleteGuard(pending_changes[change_id])
       THEN Raise(p, 400, "Cannot delete a " \o pending_changes[change_id].status \o " change")
     ELSE /\ Return(p, [Session("delete") EXCEPT
                  !.snap = (change_id :> pending_changes[change_id]),
                  !.sess = (change_id :> pending_changes[change_id]),
                  !.deleted = {change_id},
                  !.response = [code |-> 200, detail |-> "deleted"]])
          /\ UNCHANGED <<executions, clock, next_id>>


\* `await session.commit()` raises (the INSERT of a queued activity_logs row
\* is refused, or the COMMIT itself is): `except Exception` rolls the whole
\* unit of work back and re-raises, which the client sees as a 500.
get_db_rollback(p, cause) ==
  /\ req[p].kind # "idle"
  /\ req[p].pc = "returned"
  /\ cause = "activity_log" => req[p].logs > 0
  /\ resp' = Respond(p, [code |-> 500, detail |-> cause])
  /\ req' = [req EXCEPT ![p] = Idle]
  /\ UNCHANGED <<pending_changes, activity_log, executions, clock, next_id>>

\* The request is torn down while the handler is still in its loop (the
\* worker dies, or the request is cancelled): `finally: session.close()` drops
\* the session without a commit and no response is sent.
get_db_close(p) ==
  /\ req[p].kind = "apply"
  /\ req[p].pc = "loop"
  /\ req[p].i > 1
  /\ resp' = [q \in Procs |-> NoResponse]
  /\ req' = [req EXCEPT ![p] = Idle]
  /\ UNCHANGED <<pending_changes, activity_log, executions, clock, next_id>>
\* ------------------------------------------------------ External Adapter
\* One call that reached the adapter: the tool, the campaign and ad group ids
\* and the match type its body carries, the keywords it carries, whether it
\* returned or raised, and the items or created ids it returned.
CallOn(tool, campaign_id, ad_group_id, match_type, items, ok, returned) ==
  [tool |-> tool, ok |-> ok, campaign_id |-> campaign_id,
   ad_group_id |-> ad_group_id, match_type |-> match_type,
   items |-> items, returned |-> returned]

\* A call whose body detail plays no part.
Call(tool, ok) == CallOn(tool, None, None, None, <<>>, ok, <<>>)

\* One dispatch: the calls it made, whether it raised to its caller, and the
\* result or the exception text it handed back.
Execution(calls, raised, result, error) ==
  [calls |-> calls, raised |-> raised, result |-> result, error |-> error]

\* client.call_tool: returns the parsed result or raises MCPError
call_tool(tool, arguments) ==
  { Execution(<<Call(tool, TRUE) @@ [arguments |-> arguments]>>, FALSE,
              [kind |-> "raw", value |-> tool], None),
    Execution(<<Call(tool, FALSE) @@ [arguments |-> arguments]>>, TRUE,
              NoResult, "MCPError") }

\* ------------------------------------ services.harvest_service.HarvestService
\* What the External Adapter does during one composite run.
HarvestEnvs ==
  [ targets    : {"raise", "none", "some"},   \* query_targets: raises / nothing qualifies / two keywords qualify
    ad_groups  : {"raise", "none", "some"},   \* query_ad_groups(destination)
    create     : {"raise", "ok"},             \* create_target in the destination
    src_groups : {"raise", "none", "some"},   \* query_ad_groups(source)
    negate     : {"raise", "ok"},             \* create_target NEGATIVE_EXACT in the source
    harvest    : {"raise", "empty", "keywords"} ]  \* create_campaign_harvest_targets

\* The targets of the source campaign with their performance; id is the
\* keyword text ("" when the target has none).
TargetsOf(env) ==
  IF env.targets = "some"
    THEN << [id |-> "kw0", sales |-> 0, acos |-> 0],
            [id |-> "kw1", sales |-> 5, acos |-> 20],
            [id |-> "kw2", sales |-> 9, acos |-> 60],
            [id |-> "",    sales |-> 9, acos |-> 10] >>
  ELSE IF env.targets = "none"
    THEN << [id |-> "kw0", sales |-> 0, acos |-> 0] >>
  ELSE <<>>

\* The ad groups the adapter lists for a campaign.
AdGroupsOf(outcome, campaign_id) ==
  IF outcome = "some"
    THEN << [id |-> campaign_id \o "-ag1"], [id |-> campaign_id \o "-ag2"] >>
    ELSE <<>>

Keywords(list) == [k \in 1..Len(list) |-> list[k].id]

\* `if acos_threshold and ...`: None and 0 are both falsy
Truthy(threshold) == threshold # <<>> /\ threshold[1] # 0

\* `if not kw_text: continue`, then the two thresholds
Qualifies(t, sales_threshold, acos_threshold) ==
  /\ t.id # ""
  /\ ~(t.sales < sales_threshold)
  /\ ~(Truthy(acos_threshold) /\ t.acos > acos_threshold[1])

\* Step 2 of _harvest_to_existing: the threshold filter
QualifiedKeywords(target_list, sales_threshold, acos_threshold) ==
  SelectSeq(target_list, LAMBDA t : Qualifies(t, sales_threshold, acos_threshold))

\* (the last listed ad group instead of the first)
LastAdGroup(ad_group_list) ==
  IF ad_group_list = <<>> THEN None ELSE ad_group_list[Len(ad_group_list)].id

\* ad_group_list[0].get("adGroupId") when the list is not empty
FirstAdGroup(ad_group_list) ==
  IF ad_group_list = <<>> THEN None ELSE ad_group_list[1].id

NoAdGroupFound == "No ad group found in the target manual campaign. Create an ad group first."

HarvestError(mode, error) ==
  [kind |-> "harvest", status |-> "error", mode |-> mode, error |-> error]

HarvestSuccess(mode, harvested, negated) ==
  [kind |-> "harvest", status |-> "success", mode |-> mode,
   keywords_harvested |-> harvested, keywords_negated_in_source |-> negated]

QueryAdGroups(campaign_id, outcome) ==
  CallOn(QueryAdGroupTool, campaign_id, None, None, <<>>, outcome # "raise",
         AdGroupsOf(outcome, campaign_id))

CreateTargets(campaign_id, ad_group_id, match_type, keywords, ok) ==
  CallOn(CreateTargetTool, campaign_id, ad_group_id, match_type, Keywords(keywords), ok, <<>>)

\* Returns the number of negative targets created, 0 on any failure.
negate_keywords_in_source(source_campaign_id, keywords, env) ==
  IF keywords = <<>> THEN [count |-> 0, calls |-> <<>>]
  ELSE LET query == QueryAdGroups(source_campaign_id, env.src_groups)
           source_ad_group_id == FirstAdGroup(query.returned)
       IN IF ~query.ok \/ query.returned = <<>>
            THEN [count |-> 0, calls |-> <<query>>]
          ELSE IF env.negate = "raise"
            THEN [count |-> 0,
                  calls |-> <<query, CreateTargets(source_campaign_id, source_ad_group_id,
                                                   "NEGATIVE_EXACT", keywords, FALSE)>>]
          ELSE [count |-> Len(keywords),
                calls |-> <<query, CreateTargets(source_campaign_id, source_ad_group_id,
                                                 "NEGATIVE_EXACT", keywords, TRUE)>>]

\* (the count of an unsuccessful negation reported as if it had succeeded)
NegatedCountAttempted(neg, keywords) == Len(keywords)

NegatedCount(neg, keywords) == neg.count

\* (no early return when nothing qualifies)
NothingQualifiedNever(qualified_keywords) == FALSE

\* `if not qualified_keywords`
NothingQualified(qualified_keywords) == qualified_keywords = <<>>

\* Every exception is caught inside and comes back as a status "error" dict.
harvest_to_existing(arguments, env) ==
  LET src == arguments.source_campaign_id
      dst == arguments.target_campaign_id
      candidates == CallOn(QueryTargetTool, src, None, None, <<>>,
                           env.targets # "raise", TargetsOf(env))
      qualified_keywords == QualifiedKeywords(candidates.returned,
                              arguments.sales_threshold, arguments.acos_threshold)
      ad_groups == QueryAdGroups(dst, env.ad_groups)
      target_ad_group_id == FirstAdGroup(ad_groups.returned)
      create(ok) == CreateTargets(dst, target_ad_group_id, "BROAD", qualified_keywords, ok)
  IN IF ~candidates.ok
       THEN Execution(<<candidates>>, FALSE, HarvestError("existing_campaign", "MCPError"), None)
     ELSE IF NothingQualified(qualified_keywords)
       THEN Execution(<<candidates>>, FALSE, HarvestSuccess("existing_campaign", 0, 0), None)
     ELSE IF ~ad_groups.ok
       THEN Execution(<<candidates, ad_groups>>, FALSE,
                      HarvestError("existing_campaign", "MCPError"), None)
     ELSE IF target_ad_group_id = None
       THEN Execution(<<candidates, ad_groups>>, FALSE,
                      HarvestError("existing_campaign", NoAdGroupFound), None)
     ELSE IF env.create = "raise"
       THEN Execution(<<candidates, ad_groups, create(FALSE)>>,
                      FALSE, HarvestError("existing_campaign", "MCPError"), None)
     ELSE LET neg == IF arguments.negate_in_source
                       THEN negate_keywords_in_source(src, qualified_keywords, env)
                       ELSE [count |-> 0, calls |-> <<>>]
          IN Execution(<<candidates, ad_groups, create(TRUE)>> \o neg.calls, FALSE,
                       HarvestSuccess("existing_campaign", Len(qualified_keywords),
                                      NegatedCount(neg, qualified_keywords)), None)

harvest_create_new(arguments, env) ==
  LET src == arguments.source_campaign_id
      keywords == IF env.harvest = "keywords" THEN <<[id |-> "kw1"]>> ELSE <<>>
      harvest == CallOn(HarvestTool, src, None, None, <<>>, env.harvest # "raise", keywords)
  IN IF ~harvest.ok
       THEN Execution(<<harvest>>, FALSE, HarvestError("new_campaign", "MCPError"), None)
     ELSE LET neg == IF arguments.negate_in_source
                       THEN negate_keywords_in_source(src, keywords, env)
                       ELSE [count |-> 0, calls |-> <<>>]
          IN Execution(<<harvest>> \o neg.calls, FALSE,
                       HarvestSuccess("new_campaign", Len(keywords), neg.count), None)

execute_harvest(arguments, env) ==
  IF arguments.target_mode = "existing" /\ arguments.target_campaign_id # None
    THEN harvest_to_existing(arguments, env)
    ELSE harvest_create_new(arguments, env)

\* ------------------- services.campaign_creation_service.CampaignCreationService
\* What the External Adapter does for each ad group of a plan.
GroupOutcomes ==
  [ ad_group : {"raise", "noid", "ok"},     \* create_ad_group
    ad       : {"raise", "noid", "ok"},     \* create_ad
    target   : {"raise", "ok"} ]            \* create_target

PlanEnvs(plan) ==
  [ campaign : {"raise", "noid", "ok"},     \* create_campaign
    groups   : [1..Len(plan.ad_groups) -> GroupOutcomes] ]

PlanResult(campaign_id, ad_group_ids, ad_ids, target_ids, errors) ==
  [kind |-> "plan", campaign_id |-> campaign_id, ad_group_ids |-> ad_group_ids,
   ad_ids |-> ad_ids, target_ids |-> target_ids, errors |-> errors]

\* _extract_id on what the adapter returned: the first id, None without one
extract_id(returned) == IF returned = <<>> THEN None ELSE returned[1].id

\* The id the adapter gives the k-th created object of a kind.
NewId(kind, k) == [id |-> kind \o (<<"1", "2", "3">>)[k]]

\* (the ad and target steps entered whatever create_ad_group returned)
AdGroupUsableAlways(ad_group_id) == TRUE

\* `if ad_group_id:`
AdGroupUsable(ad_group_id) == ad_group_id # None

\* (the ad group loop entered whatever create_campaign returned)
CampaignUsableAlways(campaign_id) == TRUE

\* `if campaign_id:`
CampaignUsable(campaign_id) == campaign_id # None

\* (the ad group loop left at the first error)
NextAdGroupUnlessError(acc) == acc.errors = <<>>

\* `for ag in ad_groups`: the except clauses append and fall through
NextAdGroup(acc) == TRUE

\* steps 3 and 4 for one created ad group; acc = [ad_group_ids, ad_ids,
\* target_ids, errors, calls]
create_ad_and_targets(plan, ag, k, outcome, ad_group_id, acc) ==
  LET ad == CallOn(CreateAdTool, None, ad_group_id, None, <<>>, outcome.ad # "raise",
                   IF outcome.ad = "ok" THEN <<NewId("ad", k)>> ELSE <<>>)
      after_ad ==
        IF plan.asin = None THEN acc
        ELSE IF ~ad.ok
          THEN [acc EXCEPT !.errors = Append(@, "Ad creation failed"),
                           !.calls = Append(@, ad)]
        ELSE IF extract_id(ad.returned) = None
          THEN [acc EXCEPT !.calls = Append(@, ad)]
        ELSE [acc EXCEPT !.ad_ids = Append(@, extract_id(ad.returned)),
                         !.calls = Append(@, ad)]
      target == CallOn(CreateTargetTool, None, ad_group_id, "broad", ag.keywords,
                       outcome.target # "raise",
                       IF outcome.target = "ok"
                         THEN [j \in 1..Len(ag.keywords) |-> [id |-> "t-" \o ag.keywords[j]]]
                         ELSE <<>>)
  IN IF ag.keywords = <<>> THEN after_ad
     ELSE IF ~target.ok
       THEN [after_ad EXCEPT !.errors = Append(@, "Target creation failed"),
                             !.calls = Append(@, target)]
     ELSE [after_ad EXCEPT !.target_ids = @ \o [j \in 1..Len(target.returned) |-> target.returned[j].id],
                           !.calls = Append(@, target)]

\* one iteration of the loop over the ad groups
create_ad_group(plan, k, outcome, campaign_id, acc) ==
  LET ag == plan.ad_groups[k]
      call == CallOn(CreateAdGroupTool, campaign_id, None, None, <<>>,
                     outcome.ad_group # "raise",
                     IF outcome.ad_group = "ok" THEN <<NewId("ag", k)>> ELSE <<>>)
      ad_group_id == extract_id(call.returned)
      called == [acc EXCEPT !.calls = Append(@, call)]
  IN IF ~call.ok
       THEN [called EXCEPT !.errors = Append(@, "Ad group creation failed")]
     ELSE IF AdGroupUsable(ad_group_id)
       THEN create_ad_and_targets(plan, ag, k, outcome, ad_group_id,
              IF ad_group_id = None THEN called
              ELSE [called EXCEPT !.ad_group_ids = Append(@, ad_group_id)])
     ELSE [called EXCEPT !.errors = Append(@, "Ad group created but no ID returned")]

RECURSIVE create_ad_groups(_, _, _, _, _)
\* the loop over plan["ad_groups"] from the k-th on
create_ad_groups(plan, k, env, campaign_id, acc) ==
  IF k > Len(plan.ad_groups) \/ ~NextAdGroup(acc) THEN acc
  ELSE create_ad_groups(plan, k + 1, env, campaign_id,
                        create_ad_group(plan, k, env.groups[k], campaign_id, acc))

\* Returns the results dict in every case; adapter exceptions become entries
\* of its errors list.
execute_plan(plan, env) ==
  LET campaign == CallOn(CreateCampaignTool, None, None, None, <<>>, env.campaign # "raise",
                         IF env.campaign = "ok" THEN <<[id |-> "camp"]>> ELSE <<>>)
      campaign_id == extract_id(campaign.returned)
      start == [ad_group_ids |-> <<>>, ad_ids |-> <<>>, target_ids |-> <<>>,
                errors |-> <<>>, calls |-> <<campaign>>]
      Result(r) == Execution(r.calls, FALSE,
                     PlanResult(campaign_id, r.ad_group_ids, r.ad_ids, r.target_ids, r.errors),
                     None)
  IN IF ~plan.campaign
       THEN Execution(<<>>, FALSE,
                      PlanResult(None, <<>>, <<>>, <<>>, <<"Campaign data is required">>), None)
     ELSE IF ~campaign.ok
       THEN Result([start EXCEPT !.errors = <<"Campaign creation failed">>])
     ELSE IF ~CampaignUsable(campaign_id)
       THEN Result([start EXCEPT !.errors = <<"Campaign created but no ID returned">>])
     ELSE Result(create_ad_groups(plan, 1, env, campaign_id, start))

\* --------------------------------------- approvals.apply_approved_changes
Perms(S) ==
  {f \in [1..Cardinality(S) -> S] : \A x \in S : \E k \in 1..Cardinality(S) : f[k] = x}

\* (the query without the narrowing by ids or batch)
ApplyQueryAllApproved(table, change_ids, batch_id) ==
  {id \in DOMAIN table : table[id].status = "approved"}

\* (the query without the status filter)
ApplyQueryAnyStatus(table, change_ids, batch_id) ==
  IF change_ids # {}
    THEN {id \in DOMAIN table : id \in change_ids}
    ELSE {id \in DOMAIN table : table[id].batch_id = batch_id}

\* select(PendingChange).where(status == "approved") narrowed by ids or batch
ApplyQuery(table, change_ids, batch_id) ==
  IF change_ids # {}
    THEN {id \in DOMAIN table : table[id].status = "approved" /\ id \in change_ids}
    ELSE {id \in DOMAIN table : table[id].status = "approved" /\ table[id].batch_id = batch_id}

apply_approved_changes(p, change_ids, batch_id) ==
  /\ req[p].kind = "idle"
  /\ IF change_ids = {} /\ batch_id = None
       THEN Raise(p, 400, "Provide change_ids or batch_id")
     ELSE LET changes == ApplyQuery(pending_changes, change_ids, batch_id) IN
       IF changes = {}
         THEN Raise(p, 404, "No approved changes found to apply")
       ELSE \E order \in Perms(changes) :
            /\ Return(p, [Session("apply") EXCEPT
                    !.pc = "loop",
                    !.change_ids = change_ids,
                    !.batch_id = batch_id,
                    !.client = pending_changes[order[1]].credential_id,
                    !.snap = Restrict(pending_changes, changes),
                    !.sess = Restrict(pending_changes, changes),
                    !.order = order])
            /\ UNCHANGED <<executions, clock, next_id>>

\* mcp_payload.get("tool", "")
tool_name(mcp_payload) == IF mcp_payload.tool = Absent THEN "" ELSE mcp_payload.tool

\* (only the falsy test, without the comparison to "unknown")
UnknownToolFalsyOnly(name) == name = ""

UnknownTool(name) == name = "" \/ name = "unknown"

MarkFailed(change, error) ==
  [change EXCEPT !.status = "failed", !.error_message = error]

\* (the success branch without the assignment of apply_result)
MarkAppliedNoResult(change, now, mcp_result) ==
  [change EXCEPT !.status = "applied", !.applied_at = now]

MarkApplied(change, now, mcp_result) ==
  [change EXCEPT !.status = "applied", !.applied_at = now, !.apply_result = mcp_result]

\* (the body rebuilt instead of read from the stored command)
ArgumentsRebuilt(mcp_payload) ==
  IF "body" \in DOMAIN mcp_payload.arguments
    THEN [body |-> "rebuilt"]
    ELSE mcp_payload.arguments

\* mcp_payload.get("arguments", {})
Arguments(mcp_payload) == mcp_payload.arguments

\* The dispatch on the tool name: composite executor or a single call_tool.
Dispatch(mcp_payload) ==
  LET name == tool_name(mcp_payload)
      arguments == Arguments(mcp_payload)
  IN IF name = HarvestExecute
       THEN {execute_harvest(arguments, env) : env \in HarvestEnvs}
     ELSE IF name = AICampaignCreate
       THEN {execute_plan(arguments.plan, env) : env \in PlanEnvs(arguments.plan)}
     ELSE call_tool(name, arguments)

\* After the last iteration: db.add(ActivityLog(...)) and return.
LoopExit(s) ==
  IF s.i <= Len(s.order) THEN s
  ELSE [s EXCEPT !.pc = "returned",
                 !.logs = 1,
                 !.response = [code |-> 200, detail |-> "applied",
                               applied |-> s.applied, failed |-> s.failed,
                               results |-> s.results]]

Failed(s, id, error) ==
  [s EXCEPT !.sess[id] = MarkFailed(s.sess[id], error),
            !.failed = @ + 1,
            !.results = Append(@, [id |-> id, status |-> "failed"]),
            !.i = @ + 1]

Applied(s, id, now, mcp_result) ==
  [s EXCEPT !.sess[id] = MarkApplied(s.sess[id], now, mcp_result),
            !.applied = @ + 1,
            !.results = Append(@, [id |-> id, status |-> "applied"]),
            !.i = @ + 1]

\* one iteration of `for change in changes`
apply_change(p) ==
  /\ req[p].kind = "apply"
  /\ req[p].pc = "loop"
  /\ LET s == req[p]
         id == s.order[s.i]
         change == s.sess[id]
     IN IF UnknownTool(tool_name(change.mcp_payload))
          THEN /\ req' = [req EXCEPT ![p] = LoopExit(Failed(s, id, "Unknown MCP tool in payload"))]
               /\ UNCHANGED <<executions, clock>>
          ELSE \E x \in Dispatch(change.mcp_payload) :
               /\ executions' = [executions EXCEPT ![id] = Append(@, x)]
               /\ IF x.raised
                    THEN /\ req' = [req EXCEPT ![p] = LoopExit(Failed(s, id, x.error))]
                         /\ clock' = clock
                    ELSE /\ req' = [req EXCEPT ![p] = LoopExit(Applied(s, id, utcnow, x.result))]
                         /\ clock' = Tick
  /\ UNCHANGED <<pending_changes, activity_log, next_id, resp>>

\* ---------------------------------------------------------------------
\* Handlers outside the approvals router that reach the External Adapter.
\* Their adapter calls are recorded under the key NoChange.

\* ------------------- services.optimizer_service.OptimizerService.optimize_bids
\* Bids and bid steps are counted in thousandths of the currency unit, so
\* that half a step of whole hundredths is a whole number.
Cent == 10

\* A bid rule: BidRule.target_acos, min_bid, max_bid, bid_step, min_clicks.
Rules ==
  [ target_acos : {30},
    min_bid     : {2 * Cent, 100 * Cent},
    max_bid     : {100 * Cent, 10000 * Cent},
    bid_step    : {10 * Cent, 2 * Cent},
    min_clicks  : {10} ]

DefaultRule ==
  [ target_acos |-> 30, min_bid |-> 2 * Cent, max_bid |-> 10000 * Cent,
    bid_step |-> 10 * Cent, min_clicks |-> 10 ]

\* The targets the adapter may list: id ("" when it has none), bid (0 when
\* it has none or an unreadable one), performance and state ("" when it has
\* none).
Targets ==
  [ id     : {"t1", ""},
    bid    : {-1 * Cent, 0, 1 * Cent, 50 * Cent, 100 * Cent, 15000 * Cent},
    clicks : {9, 20},
    spend  : {0, 10, 32, 40, 50},
    sales  : {0, 100},
    state  : {"ENABLED", "enabled", "PAUSED", ""} ]

\* An enabled target whose ACOS of 50% is well above every rule's target.
WastefulTarget ==
  [ id |-> "t0", bid |-> 50 * Cent, clicks |-> 20, spend |-> 50, sales |-> 100,
    state |-> "ENABLED" ]

\* An enabled target without clicks.
QuietTarget ==
  [ id |-> "t0", bid |-> 50 * Cent, clicks |-> 0, spend |-> 0, sales |-> 0,
    state |-> "ENABLED" ]

TargetLists ==
  {<<t>> : t \in Targets} \cup {<<t, WastefulTarget>> : t \in Targets}

\* str.upper() on the state values above
Upper(state) == IF state = "enabled" THEN "ENABLED" ELSE state

Max(a, b) == IF a >= b THEN a ELSE b

Min(a, b) == IF a <= b THEN a ELSE b

Abs(a) == IF a >= 0 THEN a ELSE -a

\* round(x, 2): to the nearest hundredth, a tie to the even one
Round2(x) ==
  LET q == x \div Cent
      r == x % Cent
  IN IF 2 * r < Cent THEN q * Cent
     ELSE IF 2 * r > Cent THEN (q + 1) * Cent
     ELSE IF q % 2 = 0 THEN q * Cent ELSE (q + 1) * Cent

BidChange(target, new_bid) ==
  [ target_id |-> target.id,
    current_bid |-> Round2(target.bid),
    new_bid |-> Round2(new_bid),
    direction |-> IF new_bid > target.bid THEN "increase" ELSE "decrease" ]

\* (every state taken for enabled)
EnabledAnyState(state) == TRUE

\* `state not in ("ENABLED", "")` negated
Enabled(state) == Upper(state) \in {"ENABLED", ""}

\* `if clicks >= min_clicks`
EnoughClicks(clicks, min_clicks) == clicks >= min_clicks

\* (the small decrease taken as a whole step)
HalfStepWhole(bid_step) == bid_step

\* bid_step * 0.5
HalfStep(bid_step) == bid_step \div 2

\* The body of the loop of _calculate_adjustments for one target: the
\* counter it increments and the new bid it arrives at (the current bid
\* when it leaves the target alone).  current_acos = spend / sales * 100 is
\* compared with its terms multiplied out.
adjust(target, rule) ==
  LET current_bid == target.bid
      Unchanged == [counter |-> "unchanged", new_bid |-> current_bid]
      Decrease(step) == [counter |-> "decreases",
                         new_bid |-> Max(current_bid - step, rule.min_bid)]
      Increase(step) == [counter |-> "increases",
                         new_bid |-> Min(current_bid + step, rule.max_bid)]
  IN IF ~Enabled(target.state) THEN Unchanged
     ELSE IF target.id = "" \/ current_bid <= 0 THEN Unchanged
     ELSE IF ~EnoughClicks(target.clicks, rule.min_clicks) THEN Unchanged
     ELSE IF target.sales > 0
       THEN IF 10 * 100 * target.spend > 12 * rule.target_acos * target.sales
              THEN Decrease(rule.bid_step)
            ELSE IF 100 * target.spend > rule.target_acos * target.sales
              THEN Decrease(HalfStep(rule.bid_step))
            ELSE IF 10 * 100 * target.spend < 7 * rule.target_acos * target.sales
              THEN Increase(rule.bid_step)
            ELSE Unchanged
     ELSE IF target.spend > 0 THEN Decrease(rule.bid_step)
     ELSE Unchanged

Summary(increases, decreases, unchanged) ==
  [increases |-> increases, decreases |-> decreases, unchanged |-> unchanged]

RECURSIVE calculate_adjustments(_, _, _)
\* _calculate_adjustments from the k-th target of the list on
calculate_adjustments(target_list, k, rule) ==
  IF k > Len(target_list)
    THEN [analyzed |-> 0, changes |-> <<>>, summary |-> Summary(0, 0, 0)]
  ELSE LET rest == calculate_adjustments(target_list, k + 1, rule)
           target == target_list[k]
           a == adjust(target, rule)
       IN [ analyzed |-> rest.analyzed + 1,
            changes |-> (IF Abs(a.new_bid - target.bid) >= Cent
                           THEN <<BidChange(target, a.new_bid)>> ELSE <<>>) \o rest.changes,
            summary |-> [rest.summary EXCEPT ![a.counter] = @ + 1] ]

OptimizerEnvs ==
  [ targets     : {"raise", "ok"},     \* query_targets
    target_list : TargetLists,         \* what query_targets returns
    report      : {"raise", "ok"},     \* create_campaign_report (failure is swallowed)
    update      : {"raise", "ok"} ]    \* update_target_bids

\* The result dict together with the rule it was computed for.
OptimizeResult(status, rule, adjustments) ==
  [kind |-> "optimize", status |-> status, rule |-> rule,
   targets_analyzed |-> adjustments.analyzed, changes |-> adjustments.changes,
   summary |-> adjustments.summary]

optimize_bids(rule, dry_run, env) ==
  IF env.targets = "raise"
    THEN Execution(<<CallOn(QueryTargetTool, None, None, None, <<>>, FALSE, <<>>)>>,
                   TRUE, NoResult, "MCPError")
  ELSE LET reads == <<CallOn(QueryTargetTool, None, None, None, <<>>, TRUE, env.target_list),
                      Call(ReportTool, env.report = "ok")>>
           adjustments == calculate_adjustments(env.target_list, 1, rule)
       IN IF ~dry_run /\ adjustments.changes # <<>>
            THEN Execution(Append(reads, Call(UpdateBidTool, env.update = "ok")), FALSE,
                           OptimizeResult(IF env.update = "ok" THEN "applied" ELSE "error",
                                          rule, adjustments), None)
            ELSE Execution(reads, FALSE,
                           OptimizeResult(IF dry_run THEN "preview" ELSE "applied",
                                          rule, adjustments), None)

\* routers.optimizer.run_optimization
run_optimization(p, rule, dry_run, env) ==
  /\ req[p].kind = "idle"
  /\ Len(executions[NoChange]) < MaxDirect
  /\ LET x == optimize_bids(rule, dry_run, env) IN
       /\ executions' = [executions EXCEPT ![NoChange] = Append(@, x)]
       /\ IF x.raised
            THEN /\ resp' = Respond(p, [code |-> 502, detail |-> "Optimization failed"])
                 /\ req' = [req EXCEPT ![p] = Idle]
                 /\ UNCHANGED <<pending_changes, activity_log>>
            ELSE Return(p, [Session("optimize") EXCEPT
                              !.logs = 1,
                              !.response = [code |-> 200, detail |-> x.result.status]])
  /\ UNCHANGED <<clock, next_id>>

\* ------------------------------------------------ routers.harvest.run_harvest
HarvestConfigs ==
  { [target_mode |-> "new", target_campaign_id |-> None],
    [target_mode |-> "existing", target_campaign_id |-> "dst"] }

HarvestCallArguments(config) ==
  [ source_campaign_id |-> "src", target_mode |-> config.target_mode,
    target_campaign_id |-> config.target_campaign_id, negate_in_source |-> TRUE,
    sales_threshold |-> 1, acos_threshold |-> <<>> ]

HarvestPayload(config) ==
  IF config.target_mode = "new"
    THEN [tool |-> HarvestTool, arguments |-> [body |-> "harvestRequests"]]
    ELSE [tool |-> HarvestExecute, arguments |-> HarvestCallArguments(config)]

run_harvest(p, send_to_approval, config, batch_id, env) ==
  /\ req[p].kind = "idle"
  /\ IF send_to_approval
       THEN /\ next_id <= MaxChanges
            /\ Return(p, [Session("harvest") EXCEPT
                    !.new = (next_id :> PendingChange(DefaultCredential, HarvestPayload(config), batch_id)),
                    !.logs = 1,
                    !.response = [code |-> 200, detail |-> "queued_for_approval"]])
            /\ next_id' = next_id + 1
            /\ UNCHANGED executions
       ELSE /\ Len(executions[NoChange]) < MaxDirect
            /\ executions' = [executions EXCEPT ![NoChange] =
                                Append(@, execute_harvest(HarvestCallArguments(config), env))]
            /\ Return(p, [Session("harvest") EXCEPT
                    !.logs = 1,
                    !.response = [code |-> 200, detail |-> "harvest_executed"]])
            /\ UNCHANGED next_id
  /\ UNCHANGED clock

\* ------------------------------------------ routers.campaigns.create_campaign
create_campaign(p, skip_approval, x) ==
  /\ req[p].kind = "idle"
  /\ IF skip_approval
       THEN /\ Len(executions[NoChange]) < MaxDirect
            /\ executions' = [executions EXCEPT ![NoChange] = Append(@, x)]
            /\ IF x.raised
                 THEN /\ resp' = Respond(p, [code |-> 502, detail |-> "Campaign operation failed"])
                      /\ req' = [req EXCEPT ![p] = Idle]
                      /\ UNCHANGED <<pending_changes, activity_log>>
                 ELSE Return(p, [Session("campaign") EXCEPT
                                   !.logs = 1,
                                   !.response = [code |-> 200, detail |-> "created"]])
            /\ UNCHANGED next_id
       ELSE /\ next_id <= MaxChanges
            /\ Return(p, [Session("campaign") EXCEPT
                    !.new = (next_id :> PendingChange(DefaultCredential,
                               [tool |-> CreateCampaignTool, arguments |-> [body |-> "campaigns"]],
                               None)),
                    !.response = [code |-> 200, detail |-> "pending_approval"]])
            /\ next_id' = next_id + 1
            /\ UNCHANGED executions
  /\ UNCHANGED clock

\* --------------------------------------------------- routers.ai.apply_inline
\* one action in payload.actions
apply_inline(p, tool, x) ==
  /\ req[p].kind = "idle"
  /\ Len(executions[NoChange]) < MaxDirect
  /\ IF UnknownTool(tool)
       THEN /\ Return(p, [Session("inline") EXCEPT
                    !.response = [code |-> 200, detail |-> "skipped"]])
            /\ UNCHANGED executions
       ELSE /\ executions' = [executions EXCEPT ![NoChange] = Append(@, x)]
            /\ Return(p, [Session("inline") EXCEPT
                    !.logs = 1,
                    !.response = [code |-> 200,
                                  detail |-> IF x.raised THEN "failed" ELSE "applied"]])
  /\ UNCHANGED <<clock, next_id>>

\* ------------------------------------------------------ specifications
ReviewInputs ==
  { <<"approve", None>>, <<"reject", "no">>, <<"bogus", None>> }

\* What the callers queue: every command in batch b1, and a second batch of
\* plain bid updates.
CreateInputs ==
  {<<m, "b1">> : m \in McpPayloads} \cup
  {<<m, "b2">> : m \in {x \in McpPayloads : x.tool = UpdateBidTool}}

ConcReviewInputs == { <<"approve", None>>, <<"reject", "no">> }

\* Bid updates only.
PlainInputs == {in \in CreateInputs : in[1].tool = UpdateBidTool /\ in[2] = "b1"}

Create(P, inputs) ==
  \E p \in P, in \in inputs :
     create_pending_change(p, DefaultCredential, in[1], in[2])

CreateFor(P, credentials, inputs) ==
  \E p \in P, credential_id \in credentials, in \in inputs :
     create_pending_change(p, credential_id, in[1], in[2])

Review(P, inputs) ==
  \E p \in P, change_id \in Ids, in \in inputs :
     review_change(p, change_id, in[1], in[2])

BatchReview(P, selections, inputs) ==
  \E p \in P, change_ids \in selections, in \in inputs :
     batch_review(p, change_ids, in[1], in[2])

Delete(P) ==
  \E p \in P, change_id \in Ids : delete_change(p, change_id)

Apply(P, selections, batches) ==
  \E p \in P, change_ids \in selections, batch_id \in batches :
     apply_approved_changes(p, change_ids, batch_id)

ApplyLoop(P) == \E p \in P : apply_change(p)

Commit(P) == \E p \in P : get_db_commit(p)

\* The adapter answers every read; only the write can go either way.
DirectOptimizerEnvs ==
  [ targets : {"ok"}, target_list : { <<QuietTarget>>, <<WastefulTarget>> },
    report : {"ok"}, update : {"raise", "ok"} ]

DirectHarvestEnvs ==
  {env \in HarvestEnvs : /\ env.targets = "some" /\ env.ad_groups = "some"
                         /\ env.src_groups = "some" /\ env.negate = "ok"
                         /\ env.create = "ok"}

RunOptimization(P) ==
  \E p \in P, dry_run \in BOOLEAN, env \in DirectOptimizerEnvs :
     run_optimization(p, DefaultRule, dry_run, env)

RunHarvest(P) ==
  \E p \in P, send_to_approval \in BOOLEAN, env \in DirectHarvestEnvs :
     \E config \in {c \in HarvestConfigs : c.target_mode = "new"} :
        run_harvest(p, send_to_approval, config, "b1", env)

CreateCampaign(P) ==
  \E p \in P, skip_approval \in BOOLEAN, x \in call_tool(CreateCampaignTool, [body |-> "campaigns"]) :
     create_campaign(p, skip_approval, x)

ApplyInline(P) ==
  \E p \in P, tool \in {UpdateBidTool, "unknown"} :
     \E x \in call_tool(tool, [body |-> "inline"]) : apply_inline(p, tool, x)

\* The approval queue and the pipeline, requests served one at a time.
Next ==
  \/ Create({1}, CreateInputs)
  \/ Review({1}, ReviewInputs)
  \/ BatchReview({1}, SUBSET Ids, ReviewInputs)
  \/ Delete({1})
  \/ Apply({1}, SUBSET Ids, Batches \cup {None})
  \/ ApplyLoop({1})
  \/ Commit({1})

Spec == Init /\ [][Next]_vars

\* Review and apply requests with two requests in flight at once, each in
\* its own session.
ConcNext ==
  \/ Create(Procs, PlainInputs)
  \/ Review(Procs, ConcReviewInputs)
  \/ Apply(Procs, {Ids}, {None})
  \/ ApplyLoop(Procs)
  \/ Commit(Procs)

ConcSpec == Init /\ [][ConcNext]_vars

\* The queue and the pipeline together with the handlers that can reach the
\* adapter themselves, requests served one at a time.
SystemNext ==
  \/ Create({1}, PlainInputs)
  \/ Review({1}, ReviewInputs)
  \/ BatchReview({1}, SUBSET Ids, ReviewInputs)
  \/ Delete({1})
  \/ Apply({1}, SUBSET Ids, Batches \cup {None})
  \/ ApplyLoop({1})
  \/ Commit({1})
  \/ RunOptimization({1})
  \/ RunHarvest({1})
  \/ CreateCampaign({1})
  \/ ApplyInline({1})

SystemSpec == Init /\ [][SystemNext]_vars


\* What the campaign builder queues: one bundle of several ad groups, with
\* or without the campaign's own data.
BundleInputs ==
  { <<[tool |-> AICampaignCreate, arguments |-> BundleArguments], "b1">>,
    <<[tool |-> AICampaignCreate,
       arguments |-> [BundleArguments EXCEPT !.plan.campaign = FALSE]], "b1">> }

\* The queue and the pipeline serving campaign bundles only.
BundleNext ==
  \/ Create({1}, BundleInputs)
  \/ Review({1}, ConcReviewInputs)
  \/ Apply({1}, SUBSET Ids, {None})
  \/ ApplyLoop({1})
  \/ Commit({1})

BundleSpec == Init /\ [][BundleNext]_vars

\* Every rule against every list of targets the adapter may return.
Optimize(P) ==
  \E p \in P :
     /\ req[p].kind = "idle"
     /\ Len(executions[NoChange]) < MaxDirect
     /\ \E rule \in Rules, dry_run \in BOOLEAN, env \in OptimizerEnvs :
           run_optimization(p, rule, dry_run, env)

\* The optimizer on its own.
OptimizerNext ==
  \/ Optimize({1})
  \/ Commit({1})

OptimizerSpec == Init /\ [][OptimizerNext]_vars

Rollback(P) ==
  \E p \in P, cause \in {"activity_log", "commit"} : get_db_rollback(p, cause)

Close(P) == \E p \in P : get_db_close(p)

\* Apply requests, while no record has been dispatched MaxDispatch times.
ApplyAgain(P, selections, batches) ==
  /\ \A id \in Ids : Len(executions[id]) < MaxDispatch
  /\ Apply(P, selections, batches)

\* Harvests into an existing campaign as run_harvest queues them: with and
\* without an ACOS threshold, and with or without a selected destination.
HarvestInputs ==
  { <<[tool |-> HarvestExecute, arguments |-> a], "b1">> :
      a \in { [HarvestArguments EXCEPT !.acos_threshold = <<0>>],
              [HarvestArguments EXCEPT !.sales_threshold = 6, !.acos_threshold = <<30>>],
              [HarvestArguments EXCEPT !.sales_threshold = 6],
              [HarvestArguments EXCEPT !.target_campaign_id = None] } }

\* The queue and the pipeline serving harvests only.
HarvestNext ==
  \/ Create({1}, HarvestInputs)
  \/ Review({1}, ConcReviewInputs)
  \/ Apply({1}, SUBSET Ids, {None})
  \/ ApplyLoop({1})
  \/ Commit({1})

HarvestSpec == Init /\ [][HarvestNext]_vars

\* The queue and the pipeline with changes queued for either credential.
ScopeNext ==
  \/ CreateFor({1}, Credentials, PlainInputs)
  \/ Review({1}, ConcReviewInputs)
  \/ Apply({1}, SUBSET Ids, Batches)
  \/ ApplyLoop({1})
  \/ Commit({1})

ScopeSpec == Init /\ [][ScopeNext]_vars

\* The queue and the pipeline over a database whose commit can fail and a
\* worker that can stop in the middle of a request.
FaultNext ==
  \/ Create({1}, PlainInputs)
  \/ Review({1}, ConcReviewInputs)
  \/ BatchReview({1}, SUBSET Ids, ConcReviewInputs)
  \/ ApplyAgain({1}, SUBSET Ids, {None})
  \/ ApplyLoop({1})
  \/ Commit({1})
  \/ Rollback({1})
  \/ Close({1})

FaultSpec == Init /\ [][FaultNext]_vars
\* =====================================================================
\* Properties
\* =====================================================================
StatusMoves ==
  { <<"pending", "approved">>, <<"pending", "rejected">>,
    <<"approved", "applied">>, <<"approved", "failed">> }

\* The request whose session is being committed in this step.
Committing(p, kinds) ==
  /\ req[p].kind \in kinds
  /\ req[p].pc = "returned"
  /\ req'[p] = Idle

\* C1: across any sequence of create, review, batchReview, apply and delete
\* operations a record enters the table as pending and its status changes
\* only along pending->approved, pending->rejected, approved->applied or
\* approved->failed; only review and batchReview move a pending record, only
\* apply moves an approved one, and nothing moves a record out of rejected,
\* applied or failed.
C1_StatusTransitions ==
  [][ /\ \A id \in (DOMAIN pending_changes') \ DOMAIN pending_changes :
           pending_changes'[id].status = "pending"
      /\ \A id \in (DOMAIN pending_changes) \cap DOMAIN pending_changes' :
           LET old == pending_changes[id].status
               new == pending_changes'[id].status
           IN old # new =>
                /\ <<old, new>> \in StatusMoves
                /\ old = "pending" =>
                     \E p \in Procs : /\ Committing(p, {"review", "batch_review"})
                                      /\ id \in DOMAIN req[p].sess
                /\ old = "approved" =>
                     \E p \in Procs : /\ Committing(p, {"apply"})
                                      /\ id \in DOMAIN req[p].sess
    ]_vars

\* Both terminal outcomes of the pipeline and a rejection have happened.
C1_Witness ==
  \E a, b \in DOMAIN pending_changes :
     /\ pending_changes[a].status \in {"applied", "failed"}
     /\ pending_changes[b].status = "rejected"
     /\ pending_changes[b].reviewed_at # NoTime

\* An adapter call that changes something on the external platform.
Mutating(call) == call.tool \notin ReadOnlyTools

MutatingExecutions(id) ==
  {k \in 1..Len(executions[id]) :
     \E c \in 1..Len(executions[id][k].calls) : Mutating(executions[id][k].calls[c])}

\* C2: every mutating call that reached the External Adapter was made for a
\* change record, and that record had been reviewed and approved before the
\* call (it is approved, or already applied / failed by the pipeline).
C2_MutationsOnlyFromApprovedRecords ==
  /\ MutatingExecutions(NoChange) = {}
  /\ \A id \in Ids :
       MutatingExecutions(id) # {} =>
         /\ id \in DOMAIN pending_changes
         /\ pending_changes[id].status \in {"approved", "applied", "failed"}
         /\ pending_changes[id].reviewed_at # NoTime

\* What the pipeline ran for change id, last.
LastExecution(id) == executions[id][Len(executions[id])]

AllCallsOk(x) == \A c \in 1..Len(x.calls) : x.calls[c].ok

\* C3: when one apply invocation has gone through its loop, every selected
\* change has left approved; a change with an unknown operation is failed; a
\* change with a known operation got its own adapter dispatch, is failed when
\* the first adapter call of that dispatch raised and applied when every call
\* returned, whatever happened to the changes before and after it.
C3_FailureIsolation ==
  \A p \in Procs :
    (req[p].kind = "apply" /\ req[p].pc = "returned") =>
      \A k \in 1..Len(req[p].order) :
        LET id == req[p].order[k]
            change == req[p].sess[id]
        IN /\ change.status \in {"applied", "failed"}
           /\ IF UnknownTool(tool_name(change.mcp_payload))
                THEN change.status = "failed"
                ELSE /\ executions[id] # <<>>
                     /\ ~LastExecution(id).calls[1].ok => change.status = "failed"
                     /\ AllCallsOk(LastExecution(id)) => change.status = "applied"

\* C4: a review request for a record that is not pending is answered 400
\* (invalid state) and one for an unknown id 404 (not found); either way the
\* request ends there, with nothing left to commit, and no record changes
\* (status, reviewed_at and review_note included).
C4_ReviewRejectedUnlessPending ==
  [][ \A p \in Procs, id \in Ids, in \in ReviewInputs :
        (/\ \/ id \notin DOMAIN pending_changes
            \/ pending_changes[id].status # "pending"
         /\ review_change(p, id, in[1], in[2]))
        => /\ resp'[p].code = IF id \in DOMAIN pending_changes THEN 400 ELSE 404
           /\ req'[p] = Idle
           /\ pending_changes' = pending_changes
    ]_vars

\* A second review of an approved record has just been refused.
C4_Witness ==
  \E p \in Procs, id \in DOMAIN pending_changes :
     /\ resp[p] = [code |-> 400, detail |-> "Change is already approved"]
     /\ req[p] = Idle
     /\ pending_changes[id].status = "approved"
     /\ pending_changes[id].reviewed_at # NoTime

\* C5: with review requests in flight at the same time, a record leaves
\* pending once: after a review is stored, no other review overwrites its
\* status, reviewed_at or review_note (only the pipeline moves it on, from
\* approved to applied or failed).
C5_ReviewDecidedOnce ==
  [][ \A id \in (DOMAIN pending_changes) \cap DOMAIN pending_changes' :
        pending_changes[id].status \in {"approved", "rejected"} =>
          /\ pending_changes'[id].reviewed_at = pending_changes[id].reviewed_at
          /\ pending_changes'[id].review_note = pending_changes[id].review_note
          /\ pending_changes'[id].status \in
                {pending_changes[id].status} \cup
                (IF pending_changes[id].status = "approved"
                   THEN {"applied", "failed"} ELSE {})
    ]_vars

\* The records an apply request names: the listed ids, or else the members
\* of the named batch.
Selected(change_ids, batch_id) ==
  IF change_ids # {}
    THEN change_ids \cap DOMAIN pending_changes
    ELSE {id \in DOMAIN pending_changes : pending_changes[id].batch_id = batch_id}

SelectedApproved(change_ids, batch_id) ==
  {id \in Selected(change_ids, batch_id) : pending_changes[id].status = "approved"}

\* What an apply request in flight may touch: the records it loaded.  Every
\* other record keeps all its fields and gets no adapter call.
ApplyFrame ==
  \A p \in Procs :
    /\ (req[p].kind = "idle" /\ req'[p].kind = "apply") =>
          DOMAIN req'[p].sess = SelectedApproved(req'[p].change_ids, req'[p].batch_id)
    /\ req[p].kind = "apply" =>
          /\ executions'[NoChange] = executions[NoChange]
          /\ \A id \in Ids \ DOMAIN req[p].sess :
                /\ executions'[id] = executions[id]
                /\ id \in DOMAIN pending_changes =>
                     /\ id \in DOMAIN pending_changes'
                     /\ pending_changes'[id] = pending_changes[id]

\* Implied by every step of apply_approved_changes(p, ...): written in front
\* of it so that the steps of other handlers are set aside cheaply.
AcceptedOrRefused(p) ==
  /\ req[p].kind = "idle"
  /\ \/ req'[p].kind = "apply"
     \/ req'[p] = Idle /\ resp'[p].code \in {400, 404}

\* C6 (as stated): apply acts only on the records that are selected and
\* approved, and a selection of existing records is never refused because
\* records in it are not approved.
C6_NonApprovedNeverFailTheCall ==
  [][ /\ ApplyFrame
      /\ \A p \in Procs, change_ids \in (SUBSET Ids) \ {{}}, batch_id \in Batches \cup {None} :
            (/\ change_ids \subseteq DOMAIN pending_changes
             /\ AcceptedOrRefused(p)
             /\ apply_approved_changes(p, change_ids, batch_id))
            => req'[p].kind = "apply"
    ]_vars

\* C6 (amended): apply acts only on the records that are selected and
\* approved; every other record keeps all its fields and gets no adapter
\* call.  Non-approved records in the selection are left out without an error
\* as long as one selected record is approved; when none is the request is
\* answered 404 (400 when neither ids nor a batch are given) and nothing
\* changes.
C6_ApplyActsOnSelectedApproved ==
  [][ /\ ApplyFrame
      /\ \A p \in Procs, change_ids \in SUBSET Ids, batch_id \in Batches \cup {None} :
            (AcceptedOrRefused(p) /\ apply_approved_changes(p, change_ids, batch_id)) =>
              IF change_ids = {} /\ batch_id = None
                THEN /\ resp'[p].code = 400
                     /\ req'[p] = Idle
                     /\ pending_changes' = pending_changes
              ELSE IF SelectedApproved(change_ids, batch_id) = {}
                THEN /\ resp'[p].code = 404
                     /\ req'[p] = Idle
                     /\ pending_changes' = pending_changes
              ELSE /\ req'[p].kind = "apply"
                   /\ resp'[p] = NoResponse
    ]_vars

\* An apply that named an approved and a pending record has been committed:
\* the approved one was executed, the pending one is as it was.
C6_Witness ==
  \E p \in Procs, a, b \in DOMAIN pending_changes :
     /\ resp[p].code = 200
     /\ resp[p].detail = "applied"
     /\ resp[p].applied + resp[p].failed = 1
     /\ pending_changes[a].status \in {"applied", "failed"}
     /\ pending_changes[b].status = "pending"
     /\ executions[b] = <<>>

\* The payload names no operation: the key is missing, empty or "unknown".
NoOperation(mcp_payload) == mcp_payload.tool \in {Absent, "", "unknown"}

\* C7: when the apply loop comes to a change whose command names no
\* operation, it marks the change failed with the message "Unknown MCP tool
\* in payload", counts it as failed, makes no adapter call, leaves the other
\* loaded changes as they are and goes on to the next change.
C7_UnknownOperationFails ==
  [][ \A p \in Procs :
        (/\ req[p].kind = "apply"
         /\ req[p].pc = "loop"
         /\ req'[p] # req[p]
         /\ NoOperation(req[p].sess[req[p].order[req[p].i]].mcp_payload))
        => LET id == req[p].order[req[p].i] IN
           /\ executions' = executions
           /\ req'[p].kind = "apply"
           /\ req'[p].sess[id].status = "failed"
           /\ req'[p].sess[id].error_message = "Unknown MCP tool in payload"
           /\ req'[p].sess[id].applied_at = NoTime
           /\ \A other \in DOMAIN req[p].sess \ {id} :
                 req'[p].sess[other] = req[p].sess[other]
           /\ req'[p].failed = req[p].failed + 1
           /\ req'[p].applied = req[p].applied
           /\ req'[p].i = req[p].i + 1
           /\ req[p].i < Len(req[p].order) => req'[p].pc = "loop"
    ]_vars

\* One apply went over a change naming no operation and then over a bid
\* update: the first is failed without any adapter call, the second applied.
C7_Witness ==
  \E p \in Procs, a, b \in DOMAIN pending_changes :
     /\ resp[p].code = 200
     /\ resp[p].detail = "applied"
     /\ resp[p].results = << [id |-> a, status |-> "failed"], [id |-> b, status |-> "applied"] >>
     /\ NoOperation(pending_changes[a].mcp_payload)
     /\ pending_changes[a].status = "failed"
     /\ pending_changes[a].error_message = "Unknown MCP tool in payload"
     /\ executions[a] = <<>>
     /\ pending_changes[b].status = "applied"

\* C8: in every reachable state, an applied record has applied_at set,
\* apply_result equal to what the adapter or the composite executor returned
\* for it, and no error_message; a failed record has error_message set to the
\* error text (of the exception, or the unknown-tool message) and neither
\* applied_at nor apply_result; a pending, approved or rejected record has
\* none of the three.
C8_OutcomeFields ==
  \A id \in DOMAIN pending_changes :
    LET change == pending_changes[id] IN
    CASE change.status = "applied" ->
           /\ change.applied_at # NoTime
           /\ executions[id] # <<>>
           /\ ~LastExecution(id).raised
           /\ change.apply_result = LastExecution(id).result
           /\ change.apply_result # NoResult
           /\ change.error_message = None
      [] change.status = "failed" ->
           /\ change.error_message # None
           /\ change.error_message =
                IF executions[id] = <<>> THEN "Unknown MCP tool in payload"
                ELSE LastExecution(id).error
           /\ change.applied_at = NoTime
           /\ change.apply_result = NoResult
      [] OTHER ->
           /\ change.status \in {"pending", "approved", "rejected"}
           /\ change.applied_at = NoTime
           /\ change.apply_result = NoResult
           /\ change.error_message = None

\* One record applied with the adapter's raw result, one failed with the
\* adapter's error text.
C8_Witness ==
  \E a, b \in DOMAIN pending_changes :
     /\ pending_changes[a].status = "applied"
     /\ pending_changes[a].apply_result = [kind |-> "raw", value |-> UpdateBidTool]
     /\ pending_changes[b].status = "failed"
     /\ pending_changes[b].error_message = "MCPError"

\* C9: over any sequence of apply invocations a change is dispatched to the
\* adapter at most once, and only while it is approved; a plain operation is
\* one adapter call (no retry); a record that is applied or failed is never
\* loaded by a later apply, never dispatched again and keeps its status and
\* all its fields, so it is recorded as applied at most once.
C9_AtMostOnce ==
  [][ /\ \A id \in Ids :
           /\ Len(executions'[id]) <= 1
           /\ executions'[id] # executions[id] =>
                /\ id \in DOMAIN pending_changes
                /\ pending_changes[id].status = "approved"
                /\ LET x == executions'[id][Len(executions'[id])] IN
                     tool_name(pending_changes[id].mcp_payload) \notin {HarvestExecute, AICampaignCreate}
                       => Len(x.calls) = 1
           /\ (id \in DOMAIN pending_changes /\ pending_changes[id].status \in {"applied", "failed"}) =>
                /\ id \in DOMAIN pending_changes'
                /\ pending_changes'[id] = pending_changes[id]
      /\ \A p \in Procs :
           req'[p].kind = "apply" =>
             \A id \in DOMAIN req'[p].sess : req'[p].snap[id].status = "approved"
    ]_vars

\* A later apply naming a failed change, already dispatched once, has been
\* refused: nothing was approved in its selection.
C9_Witness ==
  \E p \in Procs, id \in DOMAIN pending_changes :
     /\ resp[p] = [code |-> 404, detail |-> "No approved changes found to apply"]
     /\ pending_changes[id].status = "failed"
     /\ Len(executions[id]) = 1
     /\ \A other \in DOMAIN pending_changes : pending_changes[other].status # "approved"

ListedPending(change_ids) ==
  {id \in change_ids \cap DOMAIN pending_changes : pending_changes[id].status = "pending"}

\* Implied by every step of batch_review(p, ...): written in front of it so
\* that the steps of other handlers are set aside cheaply.
BatchAcceptedOrRefused(p) ==
  /\ req[p].kind = "idle"
  /\ \/ req'[p].kind = "batch_review"
     \/ req'[p] = Idle /\ resp'[p].code \in {400, 404}

\* What an accepted batch review does: it loads exactly the listed pending
\* records, reports their number, queues one activity-log row, and its commit
\* gives those records the new status and leaves every other record as it is.
BatchReviewEffect ==
  \A p \in Procs :
    /\ (req[p].kind = "idle" /\ req'[p].kind = "batch_review") =>
          /\ req'[p].response.reviewed = Cardinality(DOMAIN req'[p].sess)
          /\ req'[p].logs = 1
    /\ Committing(p, {"batch_review"}) =>
          /\ activity_log' = activity_log + 1
          /\ resp'[p].code = 200
          /\ resp'[p].reviewed = Cardinality(DOMAIN req[p].sess)
          /\ DOMAIN pending_changes' = DOMAIN pending_changes
          /\ \A id \in DOMAIN pending_changes :
                IF id \in DOMAIN req[p].sess
                  THEN /\ pending_changes[id].status = "pending"
                       /\ pending_changes'[id].status = resp'[p].detail
                       /\ pending_changes'[id].reviewed_at # NoTime
                  ELSE pending_changes'[id] = pending_changes[id]

\* C11 (as stated): batchReview transitions exactly the listed pending
\* records, reports their number, writes one log entry per call, and a call
\* with a valid action on existing records never fails, also when none of
\* them is pending.
C11_BatchReviewNeverFails ==
  [][ /\ BatchReviewEffect
      /\ \A p \in Procs, change_ids \in (SUBSET Ids) \ {{}}, in \in ReviewInputs :
            (/\ change_ids \subseteq DOMAIN pending_changes
             /\ in[1] \in {"approve", "reject"}
             /\ BatchAcceptedOrRefused(p)
             /\ batch_review(p, change_ids, in[1], in[2]))
            => /\ req'[p].kind = "batch_review"
               /\ DOMAIN req'[p].sess = ListedPending(change_ids)
    ]_vars

\* C11 (amended): batchReview with a valid action transitions exactly the
\* listed records that are pending, skips the listed ids that are not
\* (leaving them untouched), reports the number transitioned and writes one
\* combined activity-log entry; when none of the listed ids is pending the
\* call is answered 404, and with an invalid action 400, and then nothing
\* changes and nothing is logged.
C11_BatchReviewListedPending ==
  [][ /\ BatchReviewEffect
      /\ \A p \in Procs, change_ids \in SUBSET Ids, in \in ReviewInputs :
            (BatchAcceptedOrRefused(p) /\ batch_review(p, change_ids, in[1], in[2])) =>
              IF in[1] \notin {"approve", "reject"} \/ ListedPending(change_ids) = {}
                THEN /\ resp'[p].code =
                          IF in[1] \notin {"approve", "reject"} THEN 400 ELSE 404
                     /\ req'[p] = Idle
                     /\ pending_changes' = pending_changes
                     /\ activity_log' = activity_log
                ELSE /\ req'[p].kind = "batch_review"
                     /\ DOMAIN req'[p].sess = ListedPending(change_ids)
    ]_vars

\* A batch review of two records, one pending and one already approved, has
\* been committed: one record reported, the approved one as it was.
C11_Witness ==
  \E p \in Procs, a, b \in DOMAIN pending_changes :
     /\ resp[p].code = 200
     /\ resp[p].detail = "rejected"
     /\ "reviewed" \in DOMAIN resp[p]
     /\ resp[p].reviewed = 1
     /\ pending_changes[a].status = "rejected"
     /\ pending_changes[b].status = "approved"


\* ------------------------------------------------------------------ C12
AllExecutions ==
  UNION { {executions[id][k] : k \in 1..Len(executions[id])} : id \in DOMAIN executions }

\* The runs of the campaign-bundle executor that reached the adapter.
PlanRuns == {x \in AllExecutions : x.result.kind = "plan" /\ x.calls # <<>>}

\* The create-ad-group call that a later call of the same run belongs to.
ItsAdGroupCall(x, j) ==
  LET before == {i \in 1..(j - 1) : x.calls[i].tool = CreateAdGroupTool}
  IN IF before = {} THEN 0 ELSE CHOOSE i \in before : \A h \in before : h <= i

GaveId(call) == call.ok /\ call.returned # <<>>

\* C12: in every run of the campaign-bundle executor the first adapter call,
\* and only the first, is create-campaign; every create-ad-group call comes
\* after a create-campaign call that returned an id and carries that id; every
\* create-ad and create-target call comes after the create-ad-group call of
\* its ad group, that call returned an id, and the call carries that id (so
\* none is issued for an ad group whose creation raised or returned no id).
C12_DependencyOrder ==
  \A x \in PlanRuns : \A j \in 1..Len(x.calls) :
    LET c == x.calls[j]
        g == ItsAdGroupCall(x, j)
    IN /\ (c.tool = CreateCampaignTool) <=> (j = 1)
       /\ c.tool = CreateAdGroupTool =>
            /\ GaveId(x.calls[1])
            /\ c.campaign_id = x.calls[1].returned[1].id
       /\ c.tool \in {CreateAdTool, CreateTargetTool} =>
            /\ g # 0
            /\ GaveId(x.calls[g])
            /\ c.ad_group_id = x.calls[g].returned[1].id

\* A run with one ad group that returned no id and another that got its ad
\* and its targets.
C12_Witness ==
  \E x \in PlanRuns :
    /\ \E j \in 1..Len(x.calls) :
         x.calls[j].tool = CreateAdGroupTool /\ x.calls[j].ok /\ x.calls[j].returned = <<>>
    /\ \E j \in 1..Len(x.calls) : x.calls[j].tool = CreateAdTool
    /\ \E j \in 1..Len(x.calls) : x.calls[j].tool = CreateTargetTool

\* ------------------------------------------------------------------ C13
CampaignCreated(x) == x.calls # <<>> /\ GaveId(x.calls[1])

\* C13: a run of the campaign-bundle executor whose create-campaign call
\* raised or returned no id made no other adapter call, and its result has no
\* campaign id, empty lists of ad group, ad and target ids, and an error entry.
C13_AbortWithoutCampaign ==
  \A x \in PlanRuns :
    ~CampaignCreated(x) =>
      /\ Len(x.calls) = 1
      /\ x.result.campaign_id = None
      /\ x.result.ad_group_ids = <<>>
      /\ x.result.ad_ids = <<>>
      /\ x.result.target_ids = <<>>
      /\ x.result.errors # <<>>

\* A run whose create-campaign call returned without an id, and one in which
\* it raised.
C13_Witness ==
  /\ \E x \in PlanRuns : x.calls[1].ok /\ x.calls[1].returned = <<>>
  /\ \E x \in PlanRuns : ~x.calls[1].ok

\* ------------------------------------------------------------------ C14
RECURSIVE ReturnedIds(_, _)
\* the ids returned to the calls of one tool, in call order
ReturnedIds(calls, tool) ==
  IF calls = <<>> THEN <<>>
  ELSE (IF Head(calls).tool = tool
          THEN [j \in 1..Len(Head(calls).returned) |-> Head(calls).returned[j].id]
          ELSE <<>>) \o ReturnedIds(Tail(calls), tool)

\* The steps of a run that failed: a call that raised, or a create-ad-group
\* call that returned no id.
FailedSteps(x) ==
  {j \in 1..Len(x.calls) :
     \/ ~x.calls[j].ok
     \/ x.calls[j].tool = CreateAdGroupTool /\ x.calls[j].returned = <<>>}

AdGroupCalls(x) == {j \in 1..Len(x.calls) : x.calls[j].tool = CreateAdGroupTool}

BundleChanges ==
  {id \in DOMAIN pending_changes :
     tool_name(pending_changes[id].mcp_payload) = AICampaignCreate}

\* C14: in a run of the campaign-bundle executor whose campaign was created,
\* creation is attempted for every ad group of the plan whatever happened to
\* the earlier ones, the errors list has exactly one entry per failed step,
\* and the result lists the ids of the ad groups, ads and targets that were
\* created; once the apply call has returned, the change of such a run is
\* applied.
C14_AdGroupsIndependent ==
  /\ \A x \in PlanRuns :
       CampaignCreated(x) =>
         /\ Cardinality(AdGroupCalls(x)) = MaxAdGroups
         /\ Len(x.result.errors) = Cardinality(FailedSteps(x))
         /\ x.result.ad_group_ids = ReturnedIds(x.calls, CreateAdGroupTool)
         /\ x.result.ad_ids = ReturnedIds(x.calls, CreateAdTool)
         /\ x.result.target_ids = ReturnedIds(x.calls, CreateTargetTool)
  /\ \A id \in BundleChanges :
       /\ req[1].kind = "idle"
       /\ executions[id] # <<>>
       /\ CampaignCreated(LastExecution(id))
       => pending_changes[id].status = "applied"

\* Two ad groups, the second of which failed: the result lists the ids of
\* the first and one error, and the change is applied.
C14_Witness ==
  \E id \in BundleChanges :
    /\ req[1].kind = "idle"
    /\ executions[id] # <<>>
    /\ LET x == LastExecution(id) IN
         /\ CampaignCreated(x)
         /\ x.result.ad_group_ids = <<"ag1">>
         /\ x.result.ad_ids = <<"ad1">>
         /\ x.result.target_ids = <<"t-k1">>
         /\ Len(x.result.errors) = 1
         /\ Cardinality(AdGroupCalls(x)) = 2
    /\ pending_changes[id].status = "applied"


\* ------------------------------------------------------------------ C15
\* The runs of the harvest into an existing campaign.
HarvestRuns ==
  {x \in AllExecutions : x.result.kind = "harvest" /\ x.result.mode = "existing_campaign"}

\* The destination's ad group query of a run, 0 if it was not reached.
ResolveStep(x) ==
  IF Len(x.calls) >= 2 /\ x.calls[2].tool = QueryAdGroupTool /\ x.calls[2].campaign_id = HarvestArguments.target_campaign_id
    THEN 2 ELSE 0

\* The create-target call to the destination of a run, 0 if there was none.
CreateStep(x) ==
  IF Len(x.calls) >= 3 /\ x.calls[3].tool = CreateTargetTool /\ x.calls[3].campaign_id = HarvestArguments.target_campaign_id
    THEN 3 ELSE 0

\* The adapter raised while fetching candidates, resolving the ad group or
\* creating the targets, or listed no ad group for the destination.
HarvestFailed(x) ==
  \/ ~x.calls[1].ok
  \/ ResolveStep(x) # 0 /\ (~x.calls[2].ok \/ x.calls[2].returned = <<>>)
  \/ CreateStep(x) # 0 /\ ~x.calls[3].ok

\* C15: when one apply invocation has gone through its loop, every selected
\* harvest-to-existing change whose composite failed (the adapter raised
\* while fetching candidates, resolving the ad group or creating targets, or
\* there was no destination ad group) is failed and has its error recorded.
C15_HarvestFailureEndsFailed ==
  \A p \in Procs :
    (req[p].kind = "apply" /\ req[p].pc = "returned") =>
      \A k \in 1..Len(req[p].order) :
        LET id == req[p].order[k]
            change == req[p].sess[id]
        IN (/\ tool_name(change.mcp_payload) = HarvestExecute
            /\ executions[id] # <<>>
            /\ HarvestFailed(LastExecution(id)))
           => /\ change.status = "failed"
              /\ change.error_message # None


\* ------------------------------------------------------------------ C16
\* The candidates of a run that satisfy the thresholds of the queued harvest.
QualifiedIn(x) ==
  QualifiedKeywords(x.calls[1].returned,
                    HarvestArguments.sales_threshold, HarvestArguments.acos_threshold)

CallsOf(x, tool) == {j \in 1..Len(x.calls) : x.calls[j].tool = tool}

\* C16: a harvest into an existing campaign whose candidates were fetched
\* and of which none satisfies the thresholds returns status success with
\* keywords_harvested = 0 and keywords_negated_in_source = 0 without raising,
\* and issues no create-target call, neither to the destination nor, as a
\* negative target, to the source.
C16_NothingQualifiedIsSuccess ==
  \A x \in HarvestRuns :
    (x.calls[1].ok /\ QualifiedIn(x) = <<>>) =>
      /\ ~x.raised
      /\ x.result.status = "success"
      /\ x.result.keywords_harvested = 0
      /\ x.result.keywords_negated_in_source = 0
      /\ CallsOf(x, CreateTargetTool) = {}

\* A run whose candidates were returned, none of them with enough sales.
C16_Witness ==
  \E x \in HarvestRuns :
    /\ x.calls[1].ok
    /\ x.calls[1].returned # <<>>
    /\ QualifiedIn(x) = <<>>
    /\ x.result.status = "success"

\* ------------------------------------------------------------------ C17
\* C17: a harvest into an existing campaign that was queued without a
\* destination ad group id puts its targets into the first ad group the
\* adapter lists for the destination campaign; when the adapter lists none,
\* the result is the no-ad-group error and no create-target (destination or
\* negative) and no create-ad-group call is issued.
C17_FirstAdGroupOrError ==
  \A x \in HarvestRuns :
    /\ CreateStep(x) # 0 =>
         /\ ResolveStep(x) # 0
         /\ GaveId(x.calls[2])
         /\ x.calls[3].ad_group_id = x.calls[2].returned[1].id
    /\ (ResolveStep(x) # 0 /\ GaveId(x.calls[2])) => CreateStep(x) # 0
    /\ (ResolveStep(x) # 0 /\ x.calls[2].ok /\ x.calls[2].returned = <<>>) =>
         /\ x.result.status = "error"
         /\ x.result.error = NoAdGroupFound
         /\ CallsOf(x, CreateTargetTool) = {}
         /\ CallsOf(x, CreateAdGroupTool) = {}

\* One run in which the destination has two ad groups and the targets went
\* to the first, and one in which it has none.
C17_Witness ==
  /\ \E x \in HarvestRuns :
       /\ CreateStep(x) # 0
       /\ Len(x.calls[2].returned) = 2
       /\ x.calls[3].ad_group_id = x.calls[2].returned[1].id
  /\ \E x \in HarvestRuns :
       ResolveStep(x) # 0 /\ x.calls[2].ok /\ x.calls[2].returned = <<>>

\* ------------------------------------------------------------------ C18
\* The calls a run made for the negation in the source campaign.
NegationCalls(x) ==
  {j \in 1..Len(x.calls) :
     /\ x.calls[j].campaign_id = HarvestArguments.source_campaign_id
     /\ x.calls[j].tool \in {QueryAdGroupTool, CreateTargetTool}}

\* The negation was attempted and did not go through: the source has no ad
\* group, or one of its calls raised.
NegationFailed(x) ==
  /\ NegationCalls(x) # {}
  /\ \E j \in NegationCalls(x) :
       \/ ~x.calls[j].ok
       \/ x.calls[j].tool = QueryAdGroupTool /\ x.calls[j].returned = <<>>

\* C18: in a harvest into an existing campaign with negate_in_source set,
\* every call made for the negation in the source comes after a create-target
\* call to the destination that returned; and when the negation fails (no
\* source ad group, or the adapter raises) the result is still status success
\* with keywords_harvested the number of qualified keywords and
\* keywords_negated_in_source = 0.
C18_NegationBestEffort ==
  \A x \in HarvestRuns :
    /\ \A j \in NegationCalls(x) :
         CreateStep(x) # 0 /\ x.calls[CreateStep(x)].ok /\ j > CreateStep(x)
    /\ NegationFailed(x) =>
         /\ ~x.raised
         /\ x.result.status = "success"
         /\ x.result.keywords_harvested = Len(QualifiedIn(x))
         /\ x.result.keywords_negated_in_source = 0

\* A run in which two keywords qualified and were created in the
\* destination, and the negative-target call to the source raised.
C18_Witness ==
  \E x \in HarvestRuns :
    /\ Len(QualifiedIn(x)) = 2
    /\ \E j \in NegationCalls(x) :
         x.calls[j].tool = CreateTargetTool /\ x.calls[j].match_type = "NEGATIVE_EXACT"
                                            /\ ~x.calls[j].ok
    /\ x.result.status = "success"


\* ------------------------------------------------------------------ C19
\* The runs of the optimizer that computed adjustments.
OptimizerRuns == {x \in AllExecutions : x.result.kind = "optimize"}

\* C19: every bid change the optimizer emits under a rule with
\* min_bid <= max_bid has min_bid <= new_bid <= max_bid and differs from the
\* current bid by at least 0.01, whatever the target's current bid.
C19_BidChangesWithinBounds ==
  \A x \in OptimizerRuns :
    x.result.rule.min_bid <= x.result.rule.max_bid =>
      \A k \in 1..Len(x.result.changes) :
        LET change == x.result.changes[k] IN
          /\ x.result.rule.min_bid <= change.new_bid
          /\ change.new_bid <= x.result.rule.max_bid
          /\ Abs(change.new_bid - change.current_bid) >= Cent

\* ------------------------------------------------------------------ C20
\* The targets the adapter returned to a run.
TargetsOfRun(x) == x.calls[1].returned

ChangesFor(x, target) ==
  {k \in 1..Len(x.result.changes) : x.result.changes[k].target_id = target.id}

\* The targets of a run that satisfy a skip condition.
Skipped(x, Skip(_, _)) ==
  {k \in 1..Len(TargetsOfRun(x)) : Skip(TargetsOfRun(x)[k], x.result.rule)}

\* No change for a skipped target, and every skipped target counted as
\* unchanged: the increases and decreases are all accounted for by the
\* targets that were not skipped.
SkippedStayUnchanged(x, Skip(_, _)) ==
  /\ \A k \in Skipped(x, Skip) : ChangesFor(x, TargetsOfRun(x)[k]) = {}
  /\ x.result.summary.increases + x.result.summary.decreases + x.result.summary.unchanged
       = Len(TargetsOfRun(x))
  /\ x.result.summary.unchanged >= Cardinality(Skipped(x, Skip))

\* state is not ENABLED, or current bid <= 0, or clicks < min_clicks
SkipAsStated(target, rule) ==
  \/ Upper(target.state) # "ENABLED"
  \/ target.bid <= 0
  \/ target.clicks < rule.min_clicks

\* state is given and not ENABLED, or the target has no id, or current
\* bid <= 0, or clicks < min_clicks
SkipInCode(target, rule) ==
  \/ Upper(target.state) \notin {"ENABLED", ""}
  \/ target.id = ""
  \/ target.bid <= 0
  \/ target.clicks < rule.min_clicks

\* C20 as stated: for every target whose state is not the active value, or
\* whose current bid <= 0, or whose clicks < min_clicks, the optimizer emits
\* no change and counts the target as unchanged.
C20_SkippedAsStated ==
  \A x \in OptimizerRuns : SkippedStayUnchanged(x, SkipAsStated)

\* C20 amended: for every target whose state is given and is not the active
\* value (a target listed without a state is treated as active), or that has
\* no id, or whose current bid <= 0, or whose clicks < min_clicks, the
\* optimizer emits no change and counts the target as unchanged, whatever
\* its spend, sales and ACOS.
C20_SkippedUnchanged ==
  \A x \in OptimizerRuns : SkippedStayUnchanged(x, SkipInCode)

\* A paused target with many clicks and an ACOS far above the rule's, next
\* to an enabled one: one change, for the enabled one, and one unchanged.
C20_Witness ==
  \E x \in OptimizerRuns :
    /\ Len(TargetsOfRun(x)) = 2
    /\ LET t == TargetsOfRun(x)[1] IN
         /\ t.state = "PAUSED" /\ t.id = "t1" /\ t.bid = 50 * Cent
         /\ t.clicks = 20 /\ t.spend = 50 /\ t.sales = 100
    /\ Len(x.result.changes) = 1
    /\ x.result.changes[1].target_id = WastefulTarget.id
    /\ x.result.summary.unchanged = 1
    /\ x.result.summary.decreases = 1


\* ---------------------------------------------------------------- C21
\* The request in slot p ends in this step because its activity log row
\* could not be written.
LogWriteFails(p) ==
  /\ req[p].kind \in {"review", "batch_review", "apply"}
  /\ req[p].pc = "returned"
  /\ req[p].logs > 0
  /\ req'[p] = Idle
  /\ activity_log' = activity_log
  /\ resp'[p].detail = "activity_log"

\* C21: when the activity log entry of a review, batch review or apply
\* cannot be written, the operation still succeeds: the caller gets the
\* handler's response and every status the handler assigned is stored.
C21_LogFailureKeepsOperation ==
  [][ \A p \in Procs :
        LogWriteFails(p) =>
          /\ resp'[p].code = 200
          /\ \A id \in DOMAIN req[p].sess :
                /\ id \in DOMAIN pending_changes'
                /\ pending_changes'[id].status = req[p].sess[id].status
    ]_vars

\* ---------------------------------------------------------------- C22
\* What identifies a queued command: whom it is for, what it runs, and the
\* batch it belongs to.
Command(change) ==
  [credential_id |-> change.credential_id,
   mcp_payload   |-> change.mcp_payload,
   batch_id      |-> change.batch_id]

Composite(mcp_payload) ==
  tool_name(mcp_payload) \in {HarvestExecute, AICampaignCreate}

\* C22: the mutation command of a record is fixed when the record is
\* created: no review, batch review or apply changes it (nor the batch the
\* record is in), in the table or in a session, and apply hands the adapter
\* the stored operation name with the stored arguments; a harvest reads the
\* stored source campaign.
C22_CommandFixed ==
  [][ /\ \A id \in (DOMAIN pending_changes) \cap DOMAIN pending_changes' :
           Command(pending_changes'[id]) = Command(pending_changes[id])
      /\ \A p \in Procs :
           req'[p].kind \in {"review", "batch_review", "apply"} =>
             \A id \in DOMAIN req'[p].sess :
                Command(req'[p].sess[id]) = Command(req'[p].snap[id])
      /\ \A id \in Ids :
           executions'[id] # executions[id] =>
             LET x == executions'[id][Len(executions'[id])]
                 stored == pending_changes[id].mcp_payload
             IN /\ ~Composite(stored) =>
                     /\ Len(x.calls) = 1
                     /\ x.calls[1].tool = stored.tool
                     /\ x.calls[1].arguments = stored.arguments
                /\ tool_name(stored) = HarvestExecute =>
                     x.calls[1].campaign_id = stored.arguments.source_campaign_id
    ]_vars

\* A bid update went through the pipeline with the body it was queued with.
C22_Witness ==
  \E id \in DOMAIN pending_changes :
     /\ req[1] = Idle
     /\ pending_changes[id].status = "applied"
     /\ pending_changes[id].mcp_payload.tool = UpdateBidTool
     /\ Len(executions[id]) = 1
     /\ executions[id][1].calls[1].arguments = [body |-> "bid"]

\* ---------------------------------------------------------------- C23
\* The reference rule: the bid a target that passes the skip checks should
\* get.  ACOS = spend / sales * 100 when sales > 0; the comparisons with
\* 1.2 and 0.7 times the target ACOS are written without the division.
ReferenceBid(target, rule) ==
  LET bid == target.bid
      step == rule.bid_step
      acos_times_sales == 100 * target.spend
      goal_times_sales == rule.target_acos * target.sales
  IN CASE target.sales = 0 /\ target.spend > 0 -> Max(bid - step, rule.min_bid)
       [] target.sales = 0 /\ target.spend = 0 -> bid
       [] target.sales > 0 /\ 10 * acos_times_sales > 12 * goal_times_sales
            -> Max(bid - step, rule.min_bid)
       [] target.sales > 0 /\ 10 * acos_times_sales <= 12 * goal_times_sales
                           /\ acos_times_sales > goal_times_sales
            -> Max(bid - (step \div 2), rule.min_bid)
       [] target.sales > 0 /\ 10 * acos_times_sales < 7 * goal_times_sales
            -> Min(bid + step, rule.max_bid)
       [] OTHER -> bid

\* The targets of a run that pass every skip check.
Evaluated(x) ==
  {k \in 1..Len(TargetsOfRun(x)) : ~SkipInCode(TargetsOfRun(x)[k], x.result.rule)}

C23_Example(bid, spend, sales, new_bid) ==
  \E x \in OptimizerRuns :
     /\ x.result.rule = DefaultRule
     /\ \E k \in 1..Len(TargetsOfRun(x)) :
          LET t == TargetsOfRun(x)[k] IN
            /\ t.id = "t1" /\ t.state = "ENABLED" /\ t.clicks = 20
            /\ t.bid = bid /\ t.spend = spend /\ t.sales = sales
            /\ \E j \in ChangesFor(x, t) : x.result.changes[j].new_bid = new_bid

C24_SummaryCountsChanges ==
  \A x \in OptimizerRuns :
    LET summary == x.result.summary IN
      /\ x.result.targets_analyzed
           = summary.increases + summary.decreases + summary.unchanged
      /\ Len(x.result.changes) = summary.increases + summary.decreases

\* ---------------------------------------------------------------- C25
\* A candidate qualifies: it has keyword text, its sales reach the sales
\* threshold and, when an ACOS threshold is given (0 included), its ACOS
\* does not exceed it.
QualifiesAsStated(t, arguments) ==
  /\ t.id # ""
  /\ t.sales >= arguments.sales_threshold
  /\ arguments.acos_threshold # <<>> => t.acos <= arguments.acos_threshold[1]

\* C25: a harvest into an existing campaign whose candidates were fetched
\* takes exactly the candidates that qualify: a successful run reports their
\* number as keywords_harvested, and every create-target call to the
\* destination asks for one target per qualifying candidate.
C25_QualifiedAsStated ==
  [][ \A id \in Ids :
        executions'[id] # executions[id] =>
          LET x == executions'[id][Len(executions'[id])]
              arguments == pending_changes[id].mcp_payload.arguments
              qualified == SelectSeq(x.calls[1].returned,
                                     LAMBDA t : QualifiesAsStated(t, arguments))
          IN (x.result.mode = "existing_campaign" /\ x.calls[1].ok) =>
               /\ x.result.status = "success" =>
                    x.result.keywords_harvested = Len(qualified)
               /\ \A j \in CallsOf(x, CreateTargetTool) :
                    x.calls[j].campaign_id = arguments.target_campaign_id =>
                      x.calls[j].items = Keywords(qualified)
    ]_vars

\* ---------------------------------------------------------------- C26
\* The apply requests in flight that loaded record id as approved.
ApplyingTo(id) ==
  {p \in Procs : req[p].kind = "apply" /\ id \in DOMAIN req[p].snap}

\* C26: when two apply requests that selected the same approved record
\* overlap, the record's mutation is sent to the adapter at most once and
\* only one of the requests takes the record out of approved.
C26_ConcurrentApplyOnce ==
  \A id \in Ids :
    /\ Len(executions[id]) <= 1
    /\ Cardinality({p \in ApplyingTo(id) : req[p].sess[id].status # "approved"}) <= 1

\* ---------------------------------------------------------------- C27
\* C27: every change the pipeline sends goes through an adapter client
\* built for that change's own credential and profile, also when one apply
\* request selects changes of several credentials.
C27_OwnCredential ==
  [][ \A p \in Procs, id \in Ids :
        (req[p].kind = "apply" /\ executions'[id] # executions[id]) =>
          req[p].client = pending_changes[id].credential_id
    ]_vars

\* ---------------------------------------------------------------- C28
\* C28: once the mutation of a change has been sent to the adapter, the
\* change's terminal status is stored: when the request that sent it is
\* over, however it ended, the change is no longer approved.
C28_ExecutedNeverStaysApproved ==
  \A id \in DOMAIN pending_changes :
    (executions[id] # <<>> /\ \A p \in Procs : req[p] = Idle) =>
      pending_changes[id].status # "approved"

\* ---------------------------------------------------------------- C29
\* The executor came back without a campaign: the plan had no campaign
\* data, or the create-campaign call raised or returned no id.
NoCampaign(x) == ~CampaignCreated(x)

\* C29: a campaign-bundle change becomes applied only if its campaign was
\* created: when the apply loop has gone through a bundle whose executor
\* came back without a campaign, the change is failed and carries an error
\* message.
C29_BundleNeedsCampaign ==
  \A p \in Procs :
    (req[p].kind = "apply" /\ req[p].pc = "returned") =>
      \A k \in 1..Len(req[p].order) :
        LET id == req[p].order[k]
            change == req[p].sess[id]
        IN (/\ tool_name(change.mcp_payload) = AICampaignCreate
            /\ executions[id] # <<>>
            /\ NoCampaign(LastExecution(id)))
           => /\ change.status = "failed"
              /\ change.error_message # None

\* ---------------------------------------------------------------- C30
\* C30: a harvest queued with target mode "existing" never calls the
\* adapter's create-campaign-harvest-targets operation; when it was queued
\* without a destination campaign id the harvest fails (it raises or reports
\* status error) instead of running as a harvest into a new campaign.
C30_ExistingNeverCreatesCampaign ==
  [][ \A id \in Ids :
        executions'[id] # executions[id] =>
          LET x == executions'[id][Len(executions'[id])]
              stored == pending_changes[id].mcp_payload
          IN (tool_name(stored) = HarvestExecute
                /\ stored.arguments.target_mode = "existing") =>
               /\ CallsOf(x, HarvestTool) = {}
               /\ stored.arguments.target_campaign_id = None =>
                    (x.raised \/ x.result.status = "error")
    ]_vars
====
